---- MODULE Spec2Model ----
(***************************************************************************)
(* Model of src/src/mutex.h (janus-gateway): the instrumented lock facade. *)
(*                                                                         *)
(* mutex.h is a set of macros that wrap pthread or GLib primitives and,    *)
(* when the global int lock_debug is non-zero, JANUS_PRINT a line          *)
(* "[file:function:line:<tag>] <pointer>" before calling the primitive.    *)
(*                                                                         *)
(* Every macro is a definition of the same name whose value is the         *)
(* sequence of instructions of its expansion (a print, a call of a backend *)
(* primitive, or a use of another facade macro).  Threads execute these    *)
(* instructions one at a time, so that a toggle of lock_debug or a step of *)
(* another thread can fall between the flag test, the print and the        *)
(* primitive.  The flag test `if(!lock_debug)` is the first thing an       *)
(* expansion does, so it is part of the step that enters the macro.        *)
(*                                                                         *)
(* The call-site part of a trace line (__FILE__, __FUNCTION__, __LINE__)   *)
(* is fixed per call site and is left out of a line; a line is its tag     *)
(* (the literal in the format string) and the pointer printed by %p.       *)
(***************************************************************************)
EXTENDS Integers, Sequences, FiniteSets

(***************************************************************************)
(* Bounds.                                                                 *)
(***************************************************************************)
MaxTrace == 2                         \* lines the trace sink holds

Threads == {"t1", "t2", "t3"}
NoThread == "none"
Mutexes == {"m1", "m2"}
RWLocks == {"rw1"}
Handles == Mutexes \cup RWLocks
Conds == {"c1"}
Backends == {"pthread", "glib"}       \* #ifdef USE_PTHREAD_MUTEX / #else

EBUSY == 16                           \* errno.h: pthread_mutex_trylock on a held mutex
ETIMEDOUT == 110                      \* errno.h: pthread_cond_timedwait past its deadline
G_USEC_PER_SEC == 1000000             \* microseconds in a second

VARIABLES
  backend,      \* the primitive family the build selected
  lock_debug,   \* extern int lock_debug
  lock,         \* backend state of every lock handle
  cond,         \* backend state of every condition variable
  trace,        \* the lines JANUS_PRINT has emitted, oldest first
  pc,           \* per thread: "idle", "body" (inside a macro expansion), "done";
                \* "waiting" and "woken" inside a condition wait
  call,         \* per thread: the facade invocation in progress
  held          \* per thread and handle: what the caller was told it holds

vars == <<backend, lock_debug, lock, cond, trace, pc, call, held>>

(***************************************************************************)
(* Backend state of a lock.  A mutex uses owner only; a GRWLock uses owner *)
(* for its writer and readers for the threads holding it for reading.      *)
(***************************************************************************)
Uninit == [init |-> FALSE, owner |-> NoThread, readers |-> {}]
Fresh == [init |-> TRUE, owner |-> NoThread, readers |-> {}]

IsFree(st) == st.owner = NoThread /\ st.readers = {}

\* A primitive applied outside its contract (unlock of a lock the caller
\* does not hold in that mode) is undefined: the lock is left as it was or
\* is released entirely.
Undefined(st, rv) == {[st |-> st, rv |-> rv], [st |-> [st EXCEPT !.owner = NoThread, !.readers = {}], rv |-> rv]}

(***************************************************************************)
(* The primitives of the two backends.  Outcomes(p, st, t) is the set of   *)
(* results [st |-> state after, rv |-> value returned] of primitive p      *)
(* called by thread t on a lock in state st; rv is <<>> for a primitive    *)
(* returning void.  The empty set means that the call blocks.              *)
(***************************************************************************)
Outcomes(p, st, t) ==
  CASE p = "pthread_mutex_init"    -> {[st |-> Fresh, rv |-> <<0>>]}
    [] p = "g_mutex_init"          -> {[st |-> Fresh, rv |-> <<>>]}
    [] p = "g_rw_lock_init"        -> {[st |-> Fresh, rv |-> <<>>]}
    [] p = "pthread_mutex_destroy" -> {[st |-> Uninit, rv |-> <<0>>]}
    [] p = "g_mutex_clear"         -> {[st |-> Uninit, rv |-> <<>>]}
    [] p = "g_rw_lock_clear"       -> {[st |-> Uninit, rv |-> <<>>]}
    [] p = "pthread_mutex_lock"    ->
         IF st.owner = NoThread THEN {[st |-> [st EXCEPT !.owner = t], rv |-> <<0>>]} ELSE {}
    [] p = "g_mutex_lock"          ->
         IF st.owner = NoThread THEN {[st |-> [st EXCEPT !.owner = t], rv |-> <<>>]} ELSE {}
    [] p = "pthread_mutex_trylock" ->
         IF st.owner = NoThread THEN {[st |-> [st EXCEPT !.owner = t], rv |-> <<0>>]}
                                ELSE {[st |-> st, rv |-> <<EBUSY>>]}
    [] p = "g_mutex_trylock"       ->
         IF st.owner = NoThread THEN {[st |-> [st EXCEPT !.owner = t], rv |-> <<1>>]}
                                ELSE {[st |-> st, rv |-> <<0>>]}
    [] p = "pthread_mutex_unlock"  ->
         IF st.owner = t THEN {[st |-> [st EXCEPT !.owner = NoThread], rv |-> <<0>>]}
                         ELSE Undefined(st, <<0>>)
    [] p = "g_mutex_unlock"        ->
         IF st.owner = t THEN {[st |-> [st EXCEPT !.owner = NoThread], rv |-> <<>>]}
                         ELSE Undefined(st, <<>>)
    [] p = "g_rw_lock_reader_lock" ->
         IF st.owner = NoThread THEN {[st |-> [st EXCEPT !.readers = @ \cup {t}], rv |-> <<>>]} ELSE {}
    [] p = "g_rw_lock_reader_trylock" ->
         IF st.owner = NoThread THEN {[st |-> [st EXCEPT !.readers = @ \cup {t}], rv |-> <<1>>]}
                                ELSE {[st |-> st, rv |-> <<0>>]}
    [] p = "g_rw_lock_reader_unlock" ->
         IF t \in st.readers THEN {[st |-> [st EXCEPT !.readers = @ \ {t}], rv |-> <<>>]}
                             ELSE Undefined(st, <<>>)
    [] p = "g_rw_lock_writer_lock" ->
         IF IsFree(st) THEN {[st |-> [st EXCEPT !.owner = t], rv |-> <<>>]} ELSE {}
    [] p = "g_rw_lock_writer_trylock" ->
         IF IsFree(st) THEN {[st |-> [st EXCEPT !.owner = t], rv |-> <<1>>]}
                       ELSE {[st |-> st, rv |-> <<0>>]}
    [] p = "g_rw_lock_writer_unlock" ->
         IF st.owner = t THEN {[st |-> [st EXCEPT !.owner = NoThread], rv |-> <<>>]}
         ELSE IF t \in st.readers
              \* pthread_rwlock_unlock underneath releases the read hold.
              THEN {[st |-> [st EXCEPT !.readers = @ \ {t}], rv |-> <<>>]} \cup Undefined(st, <<>>)
              ELSE Undefined(st, <<>>)

LockPrims ==
  {"pthread_mutex_init", "pthread_mutex_destroy", "pthread_mutex_lock",
   "pthread_mutex_trylock", "pthread_mutex_unlock",
   "g_mutex_init", "g_mutex_clear", "g_mutex_lock", "g_mutex_trylock", "g_mutex_unlock",
   "g_rw_lock_init", "g_rw_lock_clear", "g_rw_lock_reader_lock", "g_rw_lock_reader_trylock",
   "g_rw_lock_reader_unlock", "g_rw_lock_writer_lock", "g_rw_lock_writer_trylock",
   "g_rw_lock_writer_unlock"}

(***************************************************************************)
(* Backend state of a condition variable, and its primitives.  A wait      *)
(* releases the mutex and queues the caller in one step; the caller is     *)
(* woken by a signal or broadcast, by the deadline of a timed wait, or     *)
(* spuriously; it returns once it has the mutex again.                     *)
(***************************************************************************)
NoCond == [init |-> FALSE, waiters |-> {}]
FreshCond == [init |-> TRUE, waiters |-> {}]

WaitPrims == {"pthread_cond_wait", "pthread_cond_timedwait", "g_cond_wait", "g_cond_wait_until"}
TimedWaitPrims == {"pthread_cond_timedwait", "g_cond_wait_until"}
WakePrims == {"pthread_cond_signal", "pthread_cond_broadcast", "g_cond_signal", "g_cond_broadcast"}

\* The threads a signal or broadcast may wake among the waiters ws: every
\* possible set of them.
Woken(p, ws) ==
  IF p \in {"pthread_cond_broadcast", "g_cond_broadcast"} THEN {ws}
  ELSE IF ws = {} THEN {{}} ELSE {{u} : u \in ws}

\* The value a primitive on a condition variable returns; timedout says
\* that a timed wait ended by its deadline.
CondValue(p, timedout) ==
  CASE p \in {"pthread_cond_init", "pthread_cond_destroy", "pthread_cond_wait",
              "pthread_cond_signal", "pthread_cond_broadcast"} -> <<0>>
    [] p = "pthread_cond_timedwait" -> IF timedout THEN <<ETIMEDOUT>> ELSE <<0>>
    [] p = "g_cond_wait_until" -> IF timedout THEN <<0>> ELSE <<1>>
    [] OTHER -> <<>>

(***************************************************************************)
(* The deadline argument c of janus_condition_wait_until, as the tokens    *)
(* the caller writes: <<x>> is a primary expression (a variable, a         *)
(* constant, a parenthesised expression) of value x, <<x, y>> is the sum   *)
(* x + y written without parentheses.  Values are microseconds.            *)
(***************************************************************************)
DeadlineArgs ==
  {<<0>>, <<999999>>, <<1500000>>, <<2147483647>>, <<0, 1500000>>, <<1000000, 500000>>}

\* The deadline the caller means: the value of the argument expression.
Deadline(c) == IF Len(c) = 1 THEN c[1] ELSE c[1] + c[2]

\* .tv_sec = c / G_USEC_PER_SEC and .tv_nsec = (c % G_USEC_PER_SEC)*1000,
\* with the macro parameter c replaced by the argument's tokens: in x + y
\* the division and the remainder bind to y alone.
tv_sec(c) ==
  IF Len(c) = 1 THEN c[1] \div G_USEC_PER_SEC
                ELSE c[1] + (c[2] \div G_USEC_PER_SEC)

tv_nsec(c) ==
  IF Len(c) = 1 THEN (c[1] % G_USEC_PER_SEC) * 1000
                ELSE (c[1] + (c[2] % G_USEC_PER_SEC)) * 1000

\* const struct timespec jct = { .tv_sec = ..., .tv_nsec = ... };
Timespec == [i |-> "timespec", arg |-> "jct", conv |-> "drop"]

(***************************************************************************)
(* Instructions of a macro expansion.                                      *)
(*   JANUS_PRINT(tag)  print "[...:tag] %p" with the handle passed         *)
(*   Prim(p, conv)     call primitive p; conv says what becomes of its     *)
(*                     value: "drop" (statement, value discarded), "id"    *)
(*                     (ret = value) or "not" (ret = !value)               *)
(*   Use(op)           ret = <facade macro op>(a)                          *)
(***************************************************************************)
JANUS_PRINT(tag) == [i |-> "print", arg |-> tag, conv |-> "drop"]
Prim(p, conv) == [i |-> "call", arg |-> p, conv |-> conv]
Use(op) == [i |-> "use", arg |-> op, conv |-> "id"]

\* C's logical negation of an int.
Not(x) == IF x = 0 THEN 1 ELSE 0

(***************************************************************************)
(* The mutex facade, pthread branch (lines 23-47) and GLib branch (lines   *)
(* 73-97).  b is the backend the build selected.                           *)
(***************************************************************************)
\* A slip: the initialisation given a trace point of its own.
Slip_mutex_init_traced(b) ==
  IF b = "pthread" THEN <<JANUS_PRINT("init"), Prim("pthread_mutex_init", "id")>>
                   ELSE <<JANUS_PRINT("init"), Prim("g_mutex_init", "drop")>>

janus_mutex_init(b) ==
  IF b = "pthread" THEN <<Prim("pthread_mutex_init", "id")>> ELSE <<Prim("g_mutex_init", "drop")>>

janus_mutex_destroy(b) ==
  IF b = "pthread" THEN <<Prim("pthread_mutex_destroy", "id")>> ELSE <<Prim("g_mutex_clear", "drop")>>

janus_mutex_lock_nodebug(b) ==
  IF b = "pthread" THEN <<Prim("pthread_mutex_lock", "drop")>> ELSE <<Prim("g_mutex_lock", "drop")>>

\* A slip: the traced lock copied from the traced trylock, primitive included.
Slip_lock_debug_trylocks(b) ==
  IF b = "pthread" THEN <<JANUS_PRINT("lock"), Prim("pthread_mutex_trylock", "drop")>>
                   ELSE <<JANUS_PRINT("lock"), Prim("g_mutex_trylock", "drop")>>

janus_mutex_lock_debug(b) ==
  IF b = "pthread" THEN <<JANUS_PRINT("lock"), Prim("pthread_mutex_lock", "drop")>>
                   ELSE <<JANUS_PRINT("lock"), Prim("g_mutex_lock", "drop")>>

\* A slip: the wrapper without its flag test, always the traced form.
Slip_lock_always_traced(b, flag) == janus_mutex_lock_debug(b)

janus_mutex_lock(b, flag) ==
  IF flag = 0 THEN janus_mutex_lock_nodebug(b) ELSE janus_mutex_lock_debug(b)

\* A slip: the pthread return code taken for the result, without the `!`.
Slip_trylock_nodebug_unnegated(b) ==
  IF b = "pthread" THEN <<Prim("pthread_mutex_trylock", "id")>> ELSE <<Prim("g_mutex_trylock", "id")>>

janus_mutex_trylock_nodebug(b) ==
  IF b = "pthread" THEN <<Prim("pthread_mutex_trylock", "not")>> ELSE <<Prim("g_mutex_trylock", "id")>>

\* A slip: the traced trylock keeps the format string of the traced lock.
Slip_trylock_debug_lock_tag(b) ==
  IF b = "pthread" THEN <<JANUS_PRINT("lock"), Prim("pthread_mutex_trylock", "not")>>
                   ELSE <<JANUS_PRINT("lock"), Prim("g_mutex_trylock", "id")>>

janus_mutex_trylock_debug(b) ==
  IF b = "pthread" THEN <<JANUS_PRINT("trylock"), Prim("pthread_mutex_trylock", "not")>>
                   ELSE <<JANUS_PRINT("trylock"), Prim("g_mutex_trylock", "id")>>

janus_mutex_trylock(b, flag) ==
  IF flag = 0 THEN janus_mutex_trylock_nodebug(b) ELSE janus_mutex_trylock_debug(b)

janus_mutex_unlock_nodebug(b) ==
  IF b = "pthread" THEN <<Prim("pthread_mutex_unlock", "drop")>> ELSE <<Prim("g_mutex_unlock", "drop")>>

\* A slip: the traced unlock prints after it has released.
Slip_unlock_debug_prints_last(b) ==
  IF b = "pthread" THEN <<Prim("pthread_mutex_unlock", "drop"), JANUS_PRINT("unlock")>>
                   ELSE <<Prim("g_mutex_unlock", "drop"), JANUS_PRINT("unlock")>>

janus_mutex_unlock_debug(b) ==
  IF b = "pthread" THEN <<JANUS_PRINT("unlock"), Prim("pthread_mutex_unlock", "drop")>>
                   ELSE <<JANUS_PRINT("unlock"), Prim("g_mutex_unlock", "drop")>>

\* A slip: the flag test the wrong way round (if(lock_debug) for if(!lock_debug)).
Slip_unlock_inverted(b, flag) ==
  IF flag # 0 THEN janus_mutex_unlock_nodebug(b) ELSE janus_mutex_unlock_debug(b)

janus_mutex_unlock(b, flag) ==
  IF flag = 0 THEN janus_mutex_unlock_nodebug(b) ELSE janus_mutex_unlock_debug(b)

(***************************************************************************)
(* The read-write lock facade (lines 115-167), defined in the GLib branch  *)
(* only.                                                                   *)
(***************************************************************************)
janus_rwlock_init_nodebug == <<Prim("g_rw_lock_init", "drop")>>

janus_rwlock_init_debug == <<JANUS_PRINT("rw_init"), Prim("g_rw_lock_init", "drop")>>

janus_rwlock_init(flag) ==
  IF flag = 0 THEN janus_rwlock_init_nodebug ELSE janus_rwlock_init_debug

janus_rwlock_destroy_nodebug == <<Prim("g_rw_lock_clear", "drop")>>

janus_rwlock_destroy_debug == <<JANUS_PRINT("rw_dectroy")>> \o janus_rwlock_destroy_nodebug

janus_rwlock_destroy(flag) ==
  IF flag = 0 THEN janus_rwlock_destroy_nodebug ELSE janus_rwlock_destroy_debug

janus_rwlock_reader_lock_nodebug == <<Prim("g_rw_lock_reader_lock", "drop")>>

janus_rwlock_reader_lock_debug == <<JANUS_PRINT("reader_lock")>> \o janus_rwlock_reader_lock_nodebug

janus_rwlock_reader_lock(flag) ==
  IF flag = 0 THEN janus_rwlock_reader_lock_nodebug ELSE janus_rwlock_reader_lock_debug

janus_rwlock_reader_trylock_nodebug == <<Prim("g_rw_lock_reader_trylock", "id")>>

\* ret = janus_rwlock_reader_trylock(a): the facade macro itself, not the
\* primitive.
janus_rwlock_reader_trylock_debug ==
  <<JANUS_PRINT("reader_trylock"), Use("janus_rwlock_reader_trylock")>>

janus_rwlock_reader_trylock(flag) ==
  IF flag = 0 THEN janus_rwlock_reader_trylock_nodebug ELSE janus_rwlock_reader_trylock_debug

janus_rwlock_reader_unlock_nodebug == <<Prim("g_rw_lock_reader_unlock", "drop")>>

\* A slip: the traced reader unlock releases through the writer primitive.
Slip_reader_unlock_debug_writer ==
  <<JANUS_PRINT("reader_unlock"), Prim("g_rw_lock_writer_unlock", "drop")>>

janus_rwlock_reader_unlock_debug ==
  <<JANUS_PRINT("reader_unlock")>> \o janus_rwlock_reader_unlock_nodebug

janus_rwlock_reader_unlock(flag) ==
  IF flag = 0 THEN janus_rwlock_reader_unlock_nodebug ELSE janus_rwlock_reader_unlock_debug

janus_rwlock_writer_lock_nodebug == <<Prim("g_rw_lock_writer_lock", "drop")>>

\* The format string of line 151 reads "writer_unlock".
janus_rwlock_writer_lock_debug ==
  <<JANUS_PRINT("writer_unlock")>> \o janus_rwlock_writer_lock_nodebug

janus_rwlock_writer_lock(flag) ==
  IF flag = 0 THEN janus_rwlock_writer_lock_nodebug ELSE janus_rwlock_writer_lock_debug

\* Defined at line 157 and used by no other macro.
janus_rwlock_writer_trylock_nodebug == <<Prim("g_rw_lock_writer_trylock", "id")>>

janus_rwlock_writer_trylock_debug ==
  <<JANUS_PRINT("writer_trylock"), Use("janus_rwlock_writer_trylock")>>

\* Line 161: the untraced branch is janus_rwlock_reader_trylock_nodebug.
janus_rwlock_writer_trylock(flag) ==
  IF flag = 0 THEN janus_rwlock_reader_trylock_nodebug ELSE janus_rwlock_writer_trylock_debug

janus_rwlock_writer_unlock_nodebug == <<Prim("g_rw_lock_writer_unlock", "drop")>>

janus_rwlock_writer_unlock_debug ==
  <<JANUS_PRINT("writer_unlock")>> \o janus_rwlock_writer_unlock_nodebug

janus_rwlock_writer_unlock(flag) ==
  IF flag = 0 THEN janus_rwlock_writer_unlock_nodebug ELSE janus_rwlock_writer_unlock_debug

(***************************************************************************)
(* The condition facade, pthread branch (lines 50-68) and GLib branch      *)
(* (lines 100-112): no macro tests lock_debug or prints.  The pthread      *)
(* janus_condition_wait_until is a block that builds the timespec jct from *)
(* the deadline and passes it on, so the value of pthread_cond_timedwait   *)
(* is discarded; the GLib one is the call itself, deadline passed as is.   *)
(***************************************************************************)
janus_condition_init(b) ==
  IF b = "pthread" THEN <<Prim("pthread_cond_init", "id")>> ELSE <<Prim("g_cond_init", "drop")>>

janus_condition_destroy(b) ==
  IF b = "pthread" THEN <<Prim("pthread_cond_destroy", "id")>> ELSE <<Prim("g_cond_clear", "drop")>>

\* A slip: the wait traced as the unlock it implies.
Slip_condition_wait_traced(b) ==
  <<JANUS_PRINT("unlock"),
    Prim(IF b = "pthread" THEN "pthread_cond_wait" ELSE "g_cond_wait", "drop")>>

janus_condition_wait(b) ==
  IF b = "pthread" THEN <<Prim("pthread_cond_wait", "drop")>> ELSE <<Prim("g_cond_wait", "drop")>>

janus_condition_wait_until(b) ==
  IF b = "pthread" THEN <<Timespec, Prim("pthread_cond_timedwait", "drop")>>
                   ELSE <<Prim("g_cond_wait_until", "id")>>

janus_condition_signal(b) ==
  IF b = "pthread" THEN <<Prim("pthread_cond_signal", "drop")>> ELSE <<Prim("g_cond_signal", "drop")>>

janus_condition_broadcast(b) ==
  IF b = "pthread" THEN <<Prim("pthread_cond_broadcast", "drop")>>
                   ELSE <<Prim("g_cond_broadcast", "drop")>>

(***************************************************************************)
(* The facade operations by name.                                          *)
(***************************************************************************)
MutexOps == {"janus_mutex_init", "janus_mutex_destroy", "janus_mutex_lock",
             "janus_mutex_trylock", "janus_mutex_unlock"}
RWOps == {"janus_rwlock_init", "janus_rwlock_destroy",
          "janus_rwlock_reader_lock", "janus_rwlock_reader_trylock", "janus_rwlock_reader_unlock",
          "janus_rwlock_writer_lock", "janus_rwlock_writer_trylock", "janus_rwlock_writer_unlock"}
CondOps == {"janus_condition_init", "janus_condition_destroy", "janus_condition_wait",
            "janus_condition_wait_until", "janus_condition_signal", "janus_condition_broadcast"}
TrylockOps == {"janus_mutex_trylock", "janus_rwlock_reader_trylock", "janus_rwlock_writer_trylock"}

\* The macros the build with backend b defines: the janus_rwlock_* ones
\* stand in the #else (GLib) branch only.
Defined(b, op) == op \in RWOps => b = "glib"

\* The macros whose expansion tests lock_debug.
TestsFlag(op) == op \notin {"janus_mutex_init", "janus_mutex_destroy"} \cup CondOps

\* The instructions of facade macro op, for backend b, when its flag test
\* read the value flag.
Expansion(b, op, flag) ==
  CASE op = "janus_mutex_init"            -> janus_mutex_init(b)
    [] op = "janus_mutex_destroy"         -> janus_mutex_destroy(b)
    [] op = "janus_mutex_lock"            -> janus_mutex_lock(b, flag)
    [] op = "janus_mutex_trylock"         -> janus_mutex_trylock(b, flag)
    [] op = "janus_mutex_unlock"          -> janus_mutex_unlock(b, flag)
    [] op = "janus_rwlock_init"           -> janus_rwlock_init(flag)
    [] op = "janus_rwlock_destroy"        -> janus_rwlock_destroy(flag)
    [] op = "janus_rwlock_reader_lock"    -> janus_rwlock_reader_lock(flag)
    [] op = "janus_rwlock_reader_trylock" -> janus_rwlock_reader_trylock(flag)
    [] op = "janus_rwlock_reader_unlock"  -> janus_rwlock_reader_unlock(flag)
    [] op = "janus_rwlock_writer_lock"    -> janus_rwlock_writer_lock(flag)
    [] op = "janus_rwlock_writer_trylock" -> janus_rwlock_writer_trylock(flag)
    [] op = "janus_rwlock_writer_unlock"  -> janus_rwlock_writer_unlock(flag)
    [] op = "janus_condition_init"        -> janus_condition_init(b)
    [] op = "janus_condition_destroy"     -> janus_condition_destroy(b)
    [] op = "janus_condition_wait"        -> janus_condition_wait(b)
    [] op = "janus_condition_wait_until"  -> janus_condition_wait_until(b)
    [] op = "janus_condition_signal"      -> janus_condition_signal(b)
    [] op = "janus_condition_broadcast"   -> janus_condition_broadcast(b)

(***************************************************************************)
(* A facade invocation in progress.                                        *)
(*   op, h    the macro being expanded and the handle passed               *)
(*   m        the mutex passed to a condition wait                         *)
(*   entry    the value of lock_debug when the invocation began            *)
(*   dbg      the value its flag test read                                 *)
(*   c, jct   the deadline argument of a pthread timed wait and the        *)
(*            <<tv_sec, tv_nsec>> built from it                            *)
(*   ip       the next instruction of Expansion(backend, op, dbg)          *)
(*   ret      the macro's value so far (<<>>: none)                        *)
(* and, as a record of what the invocation did:                            *)
(*   reads    flag tests made         steps  instructions executed         *)
(*   lines    trace lines it printed  prims  primitives it called          *)
(*   rv       value of the last primitive call                             *)
(***************************************************************************)
NoCall ==
  [op |-> "none", h |-> "none", m |-> "none", entry |-> 0, dbg |-> 0, ip |-> 0,
   ret |-> <<>>, c |-> <<>>, jct |-> <<>>,
   reads |-> 0, steps |-> 0, lines |-> <<>>, prims |-> <<>>, rv |-> <<>>]

Body(t) == Expansion(backend, call[t].op, call[t].dbg)
Instr(t) == Body(t)[call[t].ip]

\* The position after instruction ip of an expansion of length n.
After(t) == IF call[t].ip + 1 > Len(Body(t)) THEN "done" ELSE "body"

(***************************************************************************)
(* What callers do: a lock is initialised or destroyed only while no other *)
(* thread uses it, acquired only while no other thread is initialising or  *)
(* destroying it and only by a thread that does not hold it, and released  *)
(* only by a thread that was told it holds it in that mode.  A thread      *)
(* waits on a condition with a mutex it holds.                             *)
(***************************************************************************)
Quiescent(t, h) ==
  \A u \in Threads \ {t} : held[u][h] = "none" /\ (pc[u] = "idle" \/ call[u].h # h)

Settled(t, h) ==
  \A u \in Threads \ {t} :
    \/ pc[u] = "idle"
    \/ call[u].h # h
    \/ call[u].op \notin {"janus_mutex_init", "janus_mutex_destroy",
                          "janus_rwlock_init", "janus_rwlock_destroy"}

MayInvoke(t, op, h, m) ==
  CASE op \in {"janus_mutex_init", "janus_rwlock_init"} ->
         ~lock[h].init /\ Quiescent(t, h)
    [] op \in {"janus_mutex_destroy", "janus_rwlock_destroy"} ->
         lock[h].init /\ held[t][h] = "none" /\ Quiescent(t, h)
    [] op \in {"janus_mutex_lock", "janus_mutex_trylock", "janus_rwlock_reader_lock",
               "janus_rwlock_reader_trylock", "janus_rwlock_writer_lock",
               "janus_rwlock_writer_trylock"} ->
         lock[h].init /\ held[t][h] = "none" /\ Settled(t, h)
    [] op = "janus_mutex_unlock" -> held[t][h] = "mutex"
    [] op = "janus_rwlock_reader_unlock" -> held[t][h] = "reader"
    [] op = "janus_rwlock_writer_unlock" -> held[t][h] = "writer"
    [] op = "janus_condition_init" ->
         ~cond[h].init /\ \A u \in Threads \ {t} : pc[u] = "idle" \/ call[u].h # h
    [] op = "janus_condition_destroy" ->
         cond[h].init /\ \A u \in Threads \ {t} : pc[u] = "idle" \/ call[u].h # h
    [] op \in {"janus_condition_wait", "janus_condition_wait_until"} ->
         cond[h].init /\ m \in Mutexes /\ held[t][m] = "mutex"
    [] op \in {"janus_condition_signal", "janus_condition_broadcast"} -> cond[h].init

\* What the caller holds once op has returned ret.
HeldAfter(op, ret, before) ==
  CASE op = "janus_mutex_lock" -> "mutex"
    [] op = "janus_mutex_trylock" -> IF ret # <<>> /\ ret[1] # 0 THEN "mutex" ELSE "none"
    [] op = "janus_rwlock_reader_lock" -> "reader"
    [] op = "janus_rwlock_reader_trylock" -> IF ret # <<>> /\ ret[1] # 0 THEN "reader" ELSE "none"
    [] op = "janus_rwlock_writer_lock" -> "writer"
    [] op = "janus_rwlock_writer_trylock" -> IF ret # <<>> /\ ret[1] # 0 THEN "writer" ELSE "none"
    [] OTHER -> before

(***************************************************************************)
(* Steps of a thread.                                                      *)
(***************************************************************************)
\* A slip: the flag test written as an assignment, if(lock_debug = 0).
Slip_Invoke_assigns_flag(t, op, h, m) ==
  /\ pc[t] = "idle"
  /\ Defined(backend, op)
  /\ MayInvoke(t, op, h, m)
  /\ pc' = [pc EXCEPT ![t] = "body"]
  /\ call' = [call EXCEPT ![t] =
       [NoCall EXCEPT !.op = op, !.h = h, !.m = m, !.ip = 1, !.entry = lock_debug,
                      !.dbg = 0,
                      !.reads = IF TestsFlag(op) THEN 1 ELSE 0]]
  /\ lock_debug' = IF TestsFlag(op) THEN 0 ELSE lock_debug
  /\ held' = IF op \in {"janus_mutex_unlock", "janus_rwlock_reader_unlock",
                         "janus_rwlock_writer_unlock"}
              THEN [held EXCEPT ![t][h] = "none"] ELSE held
  /\ UNCHANGED <<backend, lock, cond, trace>>

\* A caller reaches a use of facade macro op on handle h: the expansion
\* starts with its test of lock_debug.  From here on an unlock no longer
\* counts as held by the caller.
Invoke(t, op, h, m) ==
  /\ pc[t] = "idle"
  /\ Defined(backend, op)
  /\ MayInvoke(t, op, h, m)
  /\ pc' = [pc EXCEPT ![t] = "body"]
  /\ call' = [call EXCEPT ![t] =
       [NoCall EXCEPT !.op = op, !.h = h, !.m = m, !.ip = 1, !.entry = lock_debug,
                      !.dbg = IF TestsFlag(op) THEN lock_debug ELSE 0,
                      !.reads = IF TestsFlag(op) THEN 1 ELSE 0]]
  /\ held' = IF op \in {"janus_mutex_unlock", "janus_rwlock_reader_unlock",
                         "janus_rwlock_writer_unlock"}
              THEN [held EXCEPT ![t][h] = "none"] ELSE held
  /\ UNCHANGED <<backend, lock_debug, lock, cond, trace>>

\* JANUS_PRINT("[%s:%s:%d:tag] %p\n", __FILE__, __FUNCTION__, __LINE__, a)
EmitLine(t) ==
  /\ pc[t] = "body"
  /\ Instr(t).i = "print"
  /\ Len(trace) < MaxTrace
  /\ LET line == [tag |-> Instr(t).arg, handle |-> call[t].h] IN
       /\ trace' = Append(trace, line)
       /\ call' = [call EXCEPT ![t].lines = Append(@, line),
                               ![t].ip = @ + 1, ![t].steps = @ + 1]
  /\ pc' = [pc EXCEPT ![t] = After(t)]
  /\ UNCHANGED <<backend, lock_debug, lock, cond, held>>

\* The call of a backend primitive; a blocking primitive is taken when it
\* can complete.
CallPrim(t) ==
  /\ pc[t] = "body"
  /\ Instr(t).i = "call"
  /\ Instr(t).arg \in LockPrims
  /\ \E o \in Outcomes(Instr(t).arg, lock[call[t].h], t) :
       /\ lock' = [lock EXCEPT ![call[t].h] = o.st]
       /\ call' = [call EXCEPT
            ![t].ret = CASE Instr(t).conv = "id" -> o.rv
                         [] Instr(t).conv = "not" -> <<Not(o.rv[1])>>
                         [] OTHER -> @,
            ![t].rv = o.rv,
            ![t].prims = Append(@, Instr(t).arg),
            ![t].ip = @ + 1, ![t].steps = @ + 1]
  /\ pc' = [pc EXCEPT ![t] = After(t)]
  /\ UNCHANGED <<backend, lock_debug, cond, trace, held>>

\* The declaration of jct in the pthread janus_condition_wait_until, for
\* whatever deadline argument the caller wrote.
MakeTimespec(t) ==
  /\ pc[t] = "body"
  /\ Instr(t).i = "timespec"
  /\ \E c \in DeadlineArgs :
       call' = [call EXCEPT ![t].c = c, ![t].jct = <<tv_sec(c), tv_nsec(c)>>,
                            ![t].ip = @ + 1, ![t].steps = @ + 1]
  /\ pc' = [pc EXCEPT ![t] = After(t)]
  /\ UNCHANGED <<backend, lock_debug, lock, cond, trace, held>>

\* The call of pthread_cond_init / _destroy / _signal / _broadcast or of
\* their GLib counterparts.  A signal wakes one waiter if there is one, a
\* broadcast all of them.
CondCall(t) ==
  /\ pc[t] = "body"
  /\ Instr(t).i = "call"
  /\ Instr(t).arg \notin LockPrims \cup WaitPrims
  /\ \E ws \in (IF Instr(t).arg \in WakePrims
                 THEN Woken(Instr(t).arg, cond[call[t].h].waiters) ELSE {{}}) :
       /\ cond' = [cond EXCEPT ![call[t].h] =
            CASE Instr(t).arg \in {"pthread_cond_init", "g_cond_init"} -> FreshCond
              [] Instr(t).arg \in {"pthread_cond_destroy", "g_cond_clear"} -> NoCond
              [] OTHER -> [@ EXCEPT !.waiters = @ \ ws]]
       /\ pc' = [u \in Threads |-> IF u = t THEN After(t)
                                   ELSE IF u \in ws THEN "woken" ELSE pc[u]]
       /\ call' = [u \in Threads |->
            IF u = t
            THEN [call[t] EXCEPT
                    !.ret = IF Instr(t).conv = "id" THEN CondValue(Instr(t).arg, FALSE) ELSE @,
                    !.rv = CondValue(Instr(t).arg, FALSE),
                    !.prims = Append(@, Instr(t).arg),
                    !.ip = @ + 1, !.steps = @ + 1]
            ELSE IF u \in ws
                 THEN [call[u] EXCEPT !.rv = CondValue(Instr(u).arg, FALSE)]
                 ELSE call[u]]
  /\ UNCHANGED <<backend, lock_debug, lock, trace, held>>

\* pthread_cond_wait / pthread_cond_timedwait / g_cond_wait /
\* g_cond_wait_until, first half: the mutex is released and the caller
\* queued.
CondWaitBegin(t) ==
  /\ pc[t] = "body"
  /\ Instr(t).i = "call"
  /\ Instr(t).arg \in WaitPrims
  /\ cond' = [cond EXCEPT ![call[t].h].waiters = @ \cup {t}]
  /\ lock' = [lock EXCEPT ![call[t].m].owner = NoThread]
  /\ pc' = [pc EXCEPT ![t] = "waiting"]
  /\ call' = [call EXCEPT ![t].prims = Append(@, Instr(t).arg)]
  /\ UNCHANGED <<backend, lock_debug, trace, held>>

\* A waiter wakes without a signal: the deadline of a timed wait has
\* passed, or the wakeup is spurious.
CondWakeup(t) ==
  /\ pc[t] = "waiting"
  /\ cond' = [cond EXCEPT ![call[t].h].waiters = @ \ {t}]
  /\ pc' = [pc EXCEPT ![t] = "woken"]
  /\ \E timedout \in (IF Instr(t).arg \in TimedWaitPrims THEN {TRUE, FALSE} ELSE {FALSE}) :
       call' = [call EXCEPT ![t].rv = CondValue(Instr(t).arg, timedout)]
  /\ UNCHANGED <<backend, lock_debug, lock, trace, held>>

\* Second half of a wait: the woken caller takes the mutex again and the
\* primitive returns.
CondWaitEnd(t) ==
  /\ pc[t] = "woken"
  /\ lock[call[t].m].owner = NoThread
  /\ lock' = [lock EXCEPT ![call[t].m].owner = t]
  /\ pc' = [pc EXCEPT ![t] = After(t)]
  /\ call' = [call EXCEPT
       ![t].ret = IF Instr(t).conv = "id" THEN call[t].rv ELSE @,
       ![t].ip = @ + 1, ![t].steps = @ + 1]
  /\ UNCHANGED <<backend, lock_debug, cond, trace, held>>

\* ret = janus_rwlock_..._trylock(a) inside the traced branch of that same
\* macro: the facade operation is entered again, and its flag test is made
\* again.  The use is the last instruction of the expansion, so the value
\* of the inner use is the value of the outer one.
UseFacade(t) ==
  /\ pc[t] = "body"
  /\ Instr(t).i = "use"
  /\ call' = [call EXCEPT ![t].op = Instr(t).arg,
                          ![t].dbg = lock_debug,
                          ![t].ip = 1,
                          ![t].reads = @ + 1, ![t].steps = @ + 1]
  /\ UNCHANGED <<backend, lock_debug, lock, cond, trace, pc, held>>

\* The expansion is complete: its value goes to the caller.
Return(t) ==
  /\ pc[t] = "done"
  /\ held' = IF call[t].h \in Handles
              THEN [held EXCEPT ![t][call[t].h] = HeldAfter(call[t].op, call[t].ret, @)]
              ELSE held
  /\ pc' = [pc EXCEPT ![t] = "idle"]
  /\ call' = [call EXCEPT ![t] = NoCall]
  /\ UNCHANGED <<backend, lock_debug, lock, cond, trace>>

\* The external control path writes lock_debug.
Toggle ==
  /\ lock_debug' = 1 - lock_debug
  /\ UNCHANGED <<backend, lock, cond, trace, pc, call, held>>

(***************************************************************************)
(* Uses of the facade operations by a thread.                              *)
(***************************************************************************)
MutexInit(t, m) == Invoke(t, "janus_mutex_init", m, "none")
MutexDestroy(t, m) == Invoke(t, "janus_mutex_destroy", m, "none")
MutexLock(t, m) == Invoke(t, "janus_mutex_lock", m, "none")
MutexTrylock(t, m) == Invoke(t, "janus_mutex_trylock", m, "none")
MutexUnlock(t, m) == Invoke(t, "janus_mutex_unlock", m, "none")
RWInit(t, r) == Invoke(t, "janus_rwlock_init", r, "none")
RWDestroy(t, r) == Invoke(t, "janus_rwlock_destroy", r, "none")
ReaderLock(t, r) == Invoke(t, "janus_rwlock_reader_lock", r, "none")
ReaderTrylock(t, r) == Invoke(t, "janus_rwlock_reader_trylock", r, "none")
ReaderUnlock(t, r) == Invoke(t, "janus_rwlock_reader_unlock", r, "none")
WriterLock(t, r) == Invoke(t, "janus_rwlock_writer_lock", r, "none")
WriterTrylock(t, r) == Invoke(t, "janus_rwlock_writer_trylock", r, "none")
WriterUnlock(t, r) == Invoke(t, "janus_rwlock_writer_unlock", r, "none")
CondInit(t, c) == Invoke(t, "janus_condition_init", c, "none")
CondDestroy(t, c) == Invoke(t, "janus_condition_destroy", c, "none")
CondWait(t, c, m) == Invoke(t, "janus_condition_wait", c, m)
CondWaitUntil(t, c, m) == Invoke(t, "janus_condition_wait_until", c, m)
CondSignal(t, c) == Invoke(t, "janus_condition_signal", c, "none")
CondBroadcast(t, c) == Invoke(t, "janus_condition_broadcast", c, "none")

(***************************************************************************)
(* Initial state: the build has selected a backend, the locks are          *)
(* statically initialised (JANUS_MUTEX_INITIALIZER,                        *)
(* JANUS_RWLOCK_INITIALIZER), no thread is inside the facade.              *)
(***************************************************************************)
InitWith(bs, flags) ==
  /\ backend \in bs
  /\ lock_debug \in flags
  /\ lock = [h \in Handles |-> Fresh]
  /\ cond = [c \in Conds |-> NoCond]
  /\ trace = <<>>
  /\ pc = [t \in Threads |-> "idle"]
  /\ call = [t \in Threads |-> NoCall]
  /\ held = [t \in Threads |-> [h \in Handles |-> "none"]]

(***************************************************************************)
(* Spec: every facade operation, with either backend; lock_debug is set    *)
(* before the run (off or on) and is not written during it.  Three threads *)
(* use the read-write lock, two of them also use mutex m1.                 *)
(***************************************************************************)
TwoThreads == {"t1", "t2"}

Init == InitWith(Backends, {0, 1})

Next ==
  \/ \E t \in TwoThreads, m \in {"m1"} :
       \/ MutexInit(t, m)
       \/ MutexDestroy(t, m)
       \/ MutexLock(t, m)
       \/ MutexTrylock(t, m)
       \/ MutexUnlock(t, m)
  \/ \E t \in Threads, r \in RWLocks :
       \/ RWInit(t, r)
       \/ RWDestroy(t, r)
       \/ ReaderLock(t, r)
       \/ ReaderTrylock(t, r)
       \/ ReaderUnlock(t, r)
       \/ WriterLock(t, r)
       \/ WriterTrylock(t, r)
       \/ WriterUnlock(t, r)
  \/ \E t \in Threads : EmitLine(t) \/ CallPrim(t) \/ UseFacade(t) \/ Return(t)

Spec == Init /\ [][Next]_vars

(***************************************************************************)
(* The whole facade with the flag fixed before the run: two threads use    *)
(* mutex m1, the condition variable and the read-write lock.               *)
(***************************************************************************)
NextAll ==
  \/ \E t \in TwoThreads :
       \/ MutexLock(t, "m1")
       \/ MutexTrylock(t, "m1")
       \/ MutexUnlock(t, "m1")
  \/ \E t \in TwoThreads, c \in Conds :
       \/ CondInit(t, c)
       \/ CondDestroy(t, c)
       \/ CondWait(t, c, "m1")
       \/ CondWaitUntil(t, c, "m1")
       \/ CondSignal(t, c)
       \/ CondBroadcast(t, c)
  \/ \E t \in TwoThreads, r \in RWLocks :
       \/ ReaderLock(t, r)
       \/ ReaderTrylock(t, r)
       \/ ReaderUnlock(t, r)
       \/ WriterLock(t, r)
       \/ WriterTrylock(t, r)
       \/ WriterUnlock(t, r)
  \/ \E t \in TwoThreads :
       \/ EmitLine(t)
       \/ CallPrim(t)
       \/ UseFacade(t)
       \/ Return(t)
       \/ MakeTimespec(t)
       \/ CondCall(t)
       \/ CondWaitBegin(t)
       \/ CondWakeup(t)
       \/ CondWaitEnd(t)

SpecAll == Init /\ [][NextAll]_vars

(***************************************************************************)
(* The specifications below start with lock_debug off (its default) and    *)
(* let the external control path toggle it at any time.                    *)
(*                                                                         *)
(* SpecMutex: two threads lock, trylock and unlock the two mutexes.        *)
(***************************************************************************)
InitToggle == InitWith(Backends, {0})

NextMutex ==
  \/ \E t \in TwoThreads, m \in Mutexes :
       \/ MutexLock(t, m)
       \/ MutexTrylock(t, m)
       \/ MutexUnlock(t, m)
  \/ \E t \in TwoThreads : EmitLine(t) \/ CallPrim(t) \/ Return(t)
  \/ Toggle

SpecMutex == InitToggle /\ [][NextMutex]_vars

(***************************************************************************)
(* SpecLife: two threads use all five operations on one mutex.             *)
(***************************************************************************)
NextLife ==
  \/ \E t \in TwoThreads :
       \/ MutexInit(t, "m1")
       \/ MutexDestroy(t, "m1")
       \/ MutexLock(t, "m1")
       \/ MutexTrylock(t, "m1")
       \/ MutexUnlock(t, "m1")
  \/ \E t \in TwoThreads : EmitLine(t) \/ CallPrim(t) \/ Return(t)
  \/ Toggle

SpecLife == InitToggle /\ [][NextLife]_vars

(***************************************************************************)
(* SpecRW: two threads use all eight operations on the read-write lock     *)
(* (GLib build).                                                           *)
(***************************************************************************)
InitRW == InitWith({"glib"}, {0})

NextRW ==
  \/ \E t \in TwoThreads, r \in RWLocks :
       \/ RWInit(t, r)
       \/ RWDestroy(t, r)
       \/ ReaderLock(t, r)
       \/ ReaderTrylock(t, r)
       \/ ReaderUnlock(t, r)
       \/ WriterLock(t, r)
       \/ WriterTrylock(t, r)
       \/ WriterUnlock(t, r)
  \/ \E t \in TwoThreads : EmitLine(t) \/ CallPrim(t) \/ UseFacade(t) \/ Return(t)
  \/ Toggle

SpecRW == InitRW /\ [][NextRW]_vars

(***************************************************************************)
(* The condition facade while the flag is toggled from outside: two        *)
(* threads take and release mutex m1 and use the condition variable.       *)
(***************************************************************************)
NextCond ==
  \/ \E t \in TwoThreads :
       \/ MutexLock(t, "m1")
       \/ MutexUnlock(t, "m1")
  \/ \E t \in TwoThreads, c \in Conds :
       \/ CondInit(t, c)
       \/ CondDestroy(t, c)
       \/ CondWait(t, c, "m1")
       \/ CondWaitUntil(t, c, "m1")
       \/ CondSignal(t, c)
       \/ CondBroadcast(t, c)
  \/ \E t \in TwoThreads :
       \/ EmitLine(t)
       \/ CallPrim(t)
       \/ Return(t)
       \/ MakeTimespec(t)
       \/ CondCall(t)
       \/ CondWaitBegin(t)
       \/ CondWakeup(t)
       \/ CondWaitEnd(t)
  \/ Toggle

SpecCond == InitToggle /\ [][NextCond]_vars

(***************************************************************************)
(* One thread going through every operation of the three facades while the *)
(* flag is toggled from outside.                                           *)
(***************************************************************************)
NextSolo ==
  \/ MutexInit("t1", "m1")
  \/ MutexDestroy("t1", "m1")
  \/ MutexLock("t1", "m1")
  \/ MutexTrylock("t1", "m1")
  \/ MutexUnlock("t1", "m1")
  \/ \E c \in Conds :
       \/ CondInit("t1", c)
       \/ CondDestroy("t1", c)
       \/ CondWait("t1", c, "m1")
       \/ CondWaitUntil("t1", c, "m1")
       \/ CondSignal("t1", c)
       \/ CondBroadcast("t1", c)
  \/ \E r \in RWLocks :
       \/ RWInit("t1", r)
       \/ RWDestroy("t1", r)
       \/ ReaderLock("t1", r)
       \/ ReaderTrylock("t1", r)
       \/ ReaderUnlock("t1", r)
       \/ WriterLock("t1", r)
       \/ WriterTrylock("t1", r)
       \/ WriterUnlock("t1", r)
  \/ EmitLine("t1")
  \/ CallPrim("t1")
  \/ UseFacade("t1")
  \/ Return("t1")
  \/ MakeTimespec("t1")
  \/ CondCall("t1")
  \/ CondWaitBegin("t1")
  \/ CondWakeup("t1")
  \/ CondWaitEnd("t1")
  \/ Toggle

SpecSolo == InitToggle /\ [][NextSolo]_vars

(***************************************************************************)
(* What the specification of the facade expects of an operation: the tag   *)
(* of its trace line and the backend primitive it stands for.              *)
(***************************************************************************)
TraceTags == {"lock", "trylock", "unlock", "rw_init", "rw_destroy",
              "reader_lock", "reader_trylock", "reader_unlock",
              "writer_lock", "writer_trylock", "writer_unlock"}

OwnTag(op) ==
  CASE op = "janus_mutex_lock"            -> "lock"
    [] op = "janus_mutex_trylock"         -> "trylock"
    [] op = "janus_mutex_unlock"          -> "unlock"
    [] op = "janus_rwlock_init"           -> "rw_init"
    [] op = "janus_rwlock_destroy"        -> "rw_destroy"
    [] op = "janus_rwlock_reader_lock"    -> "reader_lock"
    [] op = "janus_rwlock_reader_trylock" -> "reader_trylock"
    [] op = "janus_rwlock_reader_unlock"  -> "reader_unlock"
    [] op = "janus_rwlock_writer_lock"    -> "writer_lock"
    [] op = "janus_rwlock_writer_trylock" -> "writer_trylock"
    [] op = "janus_rwlock_writer_unlock"  -> "writer_unlock"
    [] OTHER -> "none"

OwnPrim(b, op) ==
  CASE op = "janus_mutex_init"    -> IF b = "pthread" THEN "pthread_mutex_init" ELSE "g_mutex_init"
    [] op = "janus_mutex_destroy" -> IF b = "pthread" THEN "pthread_mutex_destroy" ELSE "g_mutex_clear"
    [] op = "janus_mutex_lock"    -> IF b = "pthread" THEN "pthread_mutex_lock" ELSE "g_mutex_lock"
    [] op = "janus_mutex_trylock" -> IF b = "pthread" THEN "pthread_mutex_trylock" ELSE "g_mutex_trylock"
    [] op = "janus_mutex_unlock"  -> IF b = "pthread" THEN "pthread_mutex_unlock" ELSE "g_mutex_unlock"
    [] op = "janus_rwlock_init"           -> "g_rw_lock_init"
    [] op = "janus_rwlock_destroy"        -> "g_rw_lock_clear"
    [] op = "janus_rwlock_reader_lock"    -> "g_rw_lock_reader_lock"
    [] op = "janus_rwlock_reader_trylock" -> "g_rw_lock_reader_trylock"
    [] op = "janus_rwlock_reader_unlock"  -> "g_rw_lock_reader_unlock"
    [] op = "janus_rwlock_writer_lock"    -> "g_rw_lock_writer_lock"
    [] op = "janus_rwlock_writer_trylock" -> "g_rw_lock_writer_trylock"
    [] op = "janus_rwlock_writer_unlock"  -> "g_rw_lock_writer_unlock"

\* ret says "acquired".
Acquired(ret) == ret # <<>> /\ ret[1] # 0

\* This step is thread t's call of a backend primitive.
DidCall(t) == pc[t] = "body" /\ Len(call'[t].prims) = Len(call[t].prims) + 1

\* This step completes the expansion of thread t's invocation.
Completes(t) == pc[t] = "body" /\ pc'[t] = "done"

(***************************************************************************)
(* C1 (SpecMutex).  Whenever a thread's janus_mutex_trylock reaches the    *)
(* backend, with either backend and whatever its flag test read: if the    *)
(* mutex is held, the invocation completes with ret = 0 and the mutex is   *)
(* unchanged; if the mutex is free (in particular after the holder's       *)
(* janus_mutex_unlock), it completes with ret non-zero and the caller is   *)
(* the owner.                                                              *)
(***************************************************************************)
C1_TrylockResult ==
  [][\A t \in Threads :
       (DidCall(t) /\ call[t].op = "janus_mutex_trylock") =>
         /\ pc'[t] = "done"
         /\ IF lock[call[t].h].owner # NoThread
            THEN call'[t].ret = <<0>> /\ lock'[call[t].h] = lock[call[t].h]
            ELSE Acquired(call'[t].ret) /\ lock'[call[t].h].owner = t]_vars

\* With the pthread backend and tracing on, t2's trylock of m1 has returned
\* 0 while t1 holds m1, after an earlier trylock traced on m1.
C1_Witness ==
  /\ backend = "pthread"
  /\ pc["t2"] = "done"
  /\ call["t2"].op = "janus_mutex_trylock"
  /\ call["t2"].h = "m1"
  /\ call["t2"].dbg = 1
  /\ call["t2"].ret = <<0>>
  /\ held["t1"]["m1"] = "mutex"
  /\ lock["m1"].owner = "t1"

(***************************************************************************)
(* C2 (Spec).  The claim as made: while some other thread holds the        *)
(* read-write lock as a reader, a janus_rwlock_writer_trylock that reaches *)
(* the backend yields ret = 0 and leaves the lock as it was.               *)
(***************************************************************************)
C2_WriterTrylockFailsUnderReaders ==
  [][\A t \in Threads :
       (/\ DidCall(t)
        /\ call[t].op = "janus_rwlock_writer_trylock"
        /\ \E u \in Threads \ {t} : held[u][call[t].h] = "reader") =>
         /\ call'[t].ret = <<0>>
         /\ lock'[call[t].h] = lock[call[t].h]]_vars

(***************************************************************************)
(* C3 (Spec).  The claim as made: a thread that holds the read-write lock  *)
(* as a writer (janus_rwlock_writer_lock returned, or                      *)
(* janus_rwlock_writer_trylock returned acquired, and it has not called    *)
(* janus_rwlock_writer_unlock) excludes every other holder.                *)
(***************************************************************************)
C3_WriterExcludesAll ==
  \A r \in RWLocks : \A t \in Threads :
    held[t][r] = "writer" => \A u \in Threads \ {t} : held[u][r] = "none"

(***************************************************************************)
(* C4 (SpecLife).  The claim as made: each mutex operation, whatever its   *)
(* flag test read, calls its backend primitive once, blocks as it does,    *)
(* leaves the mutex as it does, and, where the operation yields a value,   *)
(* yields the value the primitive returned.                                *)
(***************************************************************************)
C4_SameValueAsBackend ==
  [][\A t \in Threads :
       (call[t].op \in MutexOps) =>
         /\ Completes(t) => DidCall(t)
         /\ DidCall(t) =>
              /\ pc'[t] = "done"
              /\ call'[t].prims = <<OwnPrim(backend, call[t].op)>>
              /\ [st |-> lock'[call[t].h], rv |-> call'[t].rv]
                   \in Outcomes(OwnPrim(backend, call[t].op), lock[call[t].h], t)
              /\ call'[t].ret # <<>> => call'[t].ret = call'[t].rv]_vars

(***************************************************************************)
(* C4 as amended (SpecLife).  Each mutex operation, whatever its flag test *)
(* read, calls its backend primitive exactly once, blocks as it does and   *)
(* leaves the mutex as it does.  Its value is the primitive's for init and *)
(* destroy, none for lock and unlock, and for trylock non-zero exactly     *)
(* when the mutex was acquired: g_mutex_trylock's value with GLib, the     *)
(* negation of pthread_mutex_trylock's return code with pthread.           *)
(***************************************************************************)
C4_SameOutcomeAsBackend ==
  [][\A t \in Threads :
       (call[t].op \in MutexOps) =>
         /\ Completes(t) => DidCall(t)
         /\ DidCall(t) =>
              /\ pc'[t] = "done"
              /\ call'[t].prims = <<OwnPrim(backend, call[t].op)>>
              /\ [st |-> lock'[call[t].h], rv |-> call'[t].rv]
                   \in Outcomes(OwnPrim(backend, call[t].op), lock[call[t].h], t)
              /\ call'[t].ret =
                   CASE call[t].op \in {"janus_mutex_init", "janus_mutex_destroy"} -> call'[t].rv
                     [] call[t].op \in {"janus_mutex_lock", "janus_mutex_unlock"} -> <<>>
                     [] call[t].op = "janus_mutex_trylock" ->
                          IF backend = "pthread" THEN <<Not(call'[t].rv[1])>> ELSE call'[t].rv
              /\ call[t].op = "janus_mutex_trylock" =>
                   (Acquired(call'[t].ret) <=> lock[call[t].h].owner = NoThread)]_vars

\* With the pthread backend and tracing on, t1's trylock has acquired m1:
\* pthread_mutex_trylock returned 0 and the facade yields 1.
C4_Witness ==
  /\ backend = "pthread"
  /\ pc["t1"] = "done"
  /\ call["t1"].op = "janus_mutex_trylock"
  /\ call["t1"].dbg = 1
  /\ call["t1"].rv = <<0>>
  /\ call["t1"].ret = <<1>>
  /\ lock["m1"].owner = "t1"

C6_OneLinePerCall ==
  \A t \in Threads :
    (/\ pc[t] = "done"
     /\ call[t].op \in {"janus_mutex_lock", "janus_mutex_trylock", "janus_mutex_unlock"}
     /\ call[t].dbg # 0) =>
      /\ call[t].lines = <<[tag |-> OwnTag(call[t].op), handle |-> call[t].h]>>
      /\ \E i \in DOMAIN trace : trace[i] = call[t].lines[1]

\* t1 has completed a traced unlock of m1 after a traced trylock of m2: two
\* lines, two identities.
C6_Witness ==
  /\ pc["t1"] = "done"
  /\ call["t1"].op = "janus_mutex_unlock"
  /\ call["t1"].h = "m1"
  /\ call["t1"].dbg = 1
  /\ trace = <<[tag |-> "trylock", handle |-> "m2"], [tag |-> "unlock", handle |-> "m1"]>>

(***************************************************************************)
(* C7 (SpecRW).  The claim as made: every line of the trace carries a tag  *)
(* of the documented set.                                                  *)
(***************************************************************************)
C7_TagsInDocumentedSet ==
  \A i \in DOMAIN trace : trace[i].tag \in TraceTags

(***************************************************************************)
(* C8 (SpecRW).  The claim as made: every line printed by an invocation of *)
(* reader_lock, reader_trylock, reader_unlock, writer_lock, writer_trylock *)
(* or writer_unlock carries that operation's own name as its tag.          *)
(***************************************************************************)
C8_TagNamesOperation ==
  \A t \in Threads :
    call[t].op \in {"janus_rwlock_reader_lock", "janus_rwlock_reader_trylock",
                    "janus_rwlock_reader_unlock", "janus_rwlock_writer_lock",
                    "janus_rwlock_writer_trylock", "janus_rwlock_writer_unlock"} =>
      \A i \in DOMAIN call[t].lines : call[t].lines[i].tag = OwnTag(call[t].op)

(***************************************************************************)
(* C9 (SpecRW).  The claim as made: a trylock invocation executes at most  *)
(* its print and its primitive call, never enters the facade again, and    *)
(* completes with a boolean.                                               *)
(***************************************************************************)
C9_TrylockBounded ==
  \A t \in Threads :
    call[t].op \in TrylockOps =>
      /\ call[t].steps <= 2
      /\ call[t].reads = 1
      /\ pc[t] = "done" => call[t].ret \in {<<0>>, <<1>>}

(***************************************************************************)
(* C10 (SpecRW).  Each of janus_rwlock_init, _destroy, _reader_lock,       *)
(* _reader_unlock, _writer_lock and _writer_unlock, whatever its flag test *)
(* read, completes by calling the GLib primitive of its own kind, exactly  *)
(* once, and the lock changes as that primitive changes it.                *)
(***************************************************************************)
C10_RWPassThrough ==
  [][\A t \in Threads :
       (call[t].op \in {"janus_rwlock_init", "janus_rwlock_destroy",
                        "janus_rwlock_reader_lock", "janus_rwlock_reader_unlock",
                        "janus_rwlock_writer_lock", "janus_rwlock_writer_unlock"}) =>
         /\ Completes(t) => DidCall(t)
         /\ DidCall(t) =>
              /\ pc'[t] = "done"
              /\ call'[t].prims = <<OwnPrim(backend, call[t].op)>>
              /\ [st |-> lock'[call[t].h], rv |-> call'[t].rv]
                   \in Outcomes(OwnPrim(backend, call[t].op), lock[call[t].h], t)]_vars

\* t1 has completed a traced janus_rwlock_writer_lock and owns rw1 while
\* t2 is blocked in an untraced janus_rwlock_reader_lock.
C10_Witness ==
  /\ pc["t1"] = "done"
  /\ call["t1"].op = "janus_rwlock_writer_lock"
  /\ call["t1"].dbg = 1
  /\ call["t1"].prims = <<"g_rw_lock_writer_lock">>
  /\ lock["rw1"].owner = "t1"
  /\ pc["t2"] = "body"
  /\ call["t2"].op = "janus_rwlock_reader_lock"
  /\ call["t2"].dbg = 0

(***************************************************************************)
(* C11 (SpecMutex, the flag toggled between any two steps).  A toggle acts *)
(* on later invocations only: a line is printed only by an invocation that *)
(* began while lock_debug was on, whatever the flag has become since; an   *)
(* invocation that began while it was on has its line in the trace when it *)
(* completes, whatever the flag has become since; and every step leaves    *)
(* the lines already in the trace as they are.                             *)
(***************************************************************************)
C11_ToggleNotRetroactive ==
  [][/\ Len(trace') >= Len(trace)
     /\ SubSeq(trace', 1, Len(trace)) = trace
     /\ \A t \in Threads :
          /\ (pc[t] = "body" /\ call'[t].lines # call[t].lines) => call[t].entry = 1
          /\ (Completes(t) /\ TestsFlag(call[t].op) /\ call[t].entry = 1) =>
               /\ call'[t].lines # <<>>
               /\ \E i \in DOMAIN trace' : trace'[i] = call'[t].lines[1]]_vars

\* t1 began a janus_mutex_lock while the flag was off and has completed it
\* without a line, although the flag went on meanwhile and t2's trylock,
\* begun after the toggle, has printed its line.
C11_Witness ==
  /\ lock_debug = 1
  /\ pc["t1"] = "done"
  /\ call["t1"].op = "janus_mutex_lock"
  /\ call["t1"].entry = 0
  /\ call["t1"].lines = <<>>
  /\ pc["t2"] = "done"
  /\ call["t2"].op = "janus_mutex_trylock"
  /\ call["t2"].entry = 1
  /\ trace = <<[tag |-> "trylock", handle |-> "m2"]>>

(***************************************************************************)
(* C12 (SpecCond).  The claim as made: the timespec jct the pthread        *)
(* janus_condition_wait_until builds is the lossless conversion of the     *)
(* deadline it was given: tv_sec = c div 1000000, tv_nsec = (c mod         *)
(* 1000000) * 1000, 0 <= tv_nsec < 1000000000, and the pair converts back  *)
(* to c.                                                                   *)
(***************************************************************************)
C12_DeadlineLossless ==
  \A t \in Threads :
    call[t].jct # <<>> =>
      /\ call[t].jct[1] = Deadline(call[t].c) \div G_USEC_PER_SEC
      /\ call[t].jct[2] = (Deadline(call[t].c) % G_USEC_PER_SEC) * 1000
      /\ 0 <= call[t].jct[2]
      /\ call[t].jct[2] < 1000 * G_USEC_PER_SEC
      /\ call[t].jct[1] * G_USEC_PER_SEC + (call[t].jct[2] \div 1000) = Deadline(call[t].c)

(***************************************************************************)
(* C13 (SpecCond, the flag toggled between any two steps).  No step of a   *)
(* janus_condition_init, _destroy, _wait, _wait_until, _signal or          *)
(* _broadcast, from its invocation to its return, changes the trace, with  *)
(* the flag on or off; that includes the steps of a wait that release the  *)
(* mutex and take it again.  The invocation has printed nothing.           *)
(***************************************************************************)
C13_ConditionsNeverTrace ==
  [][\A t \in Threads :
       /\ ((call[t].op \in CondOps \/ call'[t].op \in CondOps)
              /\ (call'[t] # call[t] \/ pc'[t] # pc[t])) => trace' = trace
       /\ call'[t].op \in CondOps => call'[t].lines = <<>>]_vars

\* With tracing on, t1 has locked m1 (one line), waited on c1, which
\* released m1, and come back from the wait owning m1 again: the trace
\* still holds the line of the lock alone.
C13_Witness ==
  /\ lock_debug = 1
  /\ pc["t1"] = "done"
  /\ call["t1"].op = "janus_condition_wait"
  /\ call["t1"].entry = 1
  /\ Len(call["t1"].prims) = 1
  /\ lock["m1"].owner = "t1"
  /\ trace = <<[tag |-> "lock", handle |-> "m1"]>>

(***************************************************************************)
(* C14 (SpecAll).  The claim as made: whichever backend the build          *)
(* selected, every mutex, condition and read-write lock operation is       *)
(* defined, and a completed janus_mutex_trylock or                         *)
(* janus_condition_wait_until has yielded a result.                        *)
(***************************************************************************)
C14_SameFacadeEitherBackend ==
  /\ \A op \in MutexOps \cup CondOps \cup RWOps : Defined(backend, op)
  /\ \A t \in Threads :
       (pc[t] = "done" /\ call[t].op \in {"janus_mutex_trylock", "janus_condition_wait_until"})
         => call[t].ret # <<>>

(***************************************************************************)
(* C15 (SpecAll).  In the traced branch the line comes before the          *)
(* delegation: a thread that stands at its primitive call after a flag     *)
(* test that read "on", blocked or not, has printed its one line, for the  *)
(* handle passed, and the line is in the trace; and every step that calls  *)
(* the primitive in that branch, and so acquires or releases, finds the    *)
(* line there.                                                             *)
(***************************************************************************)
C15_LineBeforeDelegation ==
  [][\A t \in Threads :
       /\ (pc'[t] = "body" /\ call'[t].dbg = 1 /\ Instr(t)'.i = "call") =>
            /\ Len(call'[t].lines) = 1
            /\ call'[t].lines[1].handle = call'[t].h
            /\ \E i \in DOMAIN trace' : trace'[i] = call'[t].lines[1]
       /\ (DidCall(t) /\ call[t].dbg = 1) =>
            /\ call[t].lines # <<>>
            /\ \E i \in DOMAIN trace : trace[i] = call[t].lines[1]]_vars

\* Tracing is on; t1 owns rw1 as writer and t2 is blocked in
\* janus_rwlock_reader_lock, its line already in the trace.
C15_Witness ==
  /\ lock_debug = 1
  /\ lock["rw1"].owner = "t1"
  /\ pc["t2"] = "body"
  /\ call["t2"].op = "janus_rwlock_reader_lock"
  /\ call["t2"].prims = <<>>
  /\ Outcomes("g_rw_lock_reader_lock", lock["rw1"], "t2") = {}
  /\ \E i \in DOMAIN trace : trace[i] = [tag |-> "reader_lock", handle |-> "rw1"]

(***************************************************************************)
(* C16 (SpecSolo, every operation of the three facades, the flag toggled   *)
(* between any two steps).  No step of a facade operation writes           *)
(* lock_debug: a step that changes the flag changes nothing else, it is    *)
(* the external toggle; so every step of every invocation, from its        *)
(* beginning to its return, leaves the flag as it found it.                *)
(***************************************************************************)
C16_FacadeNeverWritesFlag ==
  [][lock_debug' # lock_debug =>
       /\ pc' = pc
       /\ call' = call
       /\ held' = held
       /\ lock' = lock
       /\ cond' = cond
       /\ trace' = trace]_vars

\* The flag was turned on once and is still on after a mutex lock and a
\* reader lock, both traced, and a completed broadcast.
C16_Witness ==
  /\ lock_debug = 1
  /\ pc["t1"] = "done"
  /\ call["t1"].op = "janus_condition_broadcast"
  /\ call["t1"].entry = 1
  /\ trace = <<[tag |-> "lock", handle |-> "m1"], [tag |-> "reader_lock", handle |-> "rw1"]>>

(***************************************************************************)
(* C17 as made (SpecLife).  Each of the five mutex operations, begun while *)
(* the flag was on, has printed one line for the mutex passed by the time  *)
(* it delegates to the backend.                                            *)
(***************************************************************************)
C17_AllFiveMutexOpsTrace ==
  \A t \in Threads :
    (call[t].op \in MutexOps /\ call[t].entry = 1 /\ call[t].prims # <<>>) =>
      /\ Len(call[t].lines) = 1
      /\ call[t].lines[1].handle = call[t].h

(***************************************************************************)
(* C17 as amended (SpecLife).  janus_mutex_lock, janus_mutex_trylock and   *)
(* janus_mutex_unlock, begun while the flag was on, have printed exactly   *)
(* one line, with their tag and the mutex passed, by the time they         *)
(* delegate, and the line is in the trace; janus_mutex_init and            *)
(* janus_mutex_destroy print nothing, with the flag on or off.             *)
(***************************************************************************)
C17_ThreeMutexOpsTrace ==
  \A t \in Threads :
    /\ (call[t].op \in {"janus_mutex_lock", "janus_mutex_trylock", "janus_mutex_unlock"}
          /\ call[t].entry = 1 /\ call[t].prims # <<>>) =>
         /\ call[t].lines = <<[tag |-> OwnTag(call[t].op), handle |-> call[t].h]>>
         /\ \E i \in DOMAIN trace : trace[i] = call[t].lines[1]
    /\ call[t].op \in {"janus_mutex_init", "janus_mutex_destroy"} => call[t].lines = <<>>

\* With the flag on throughout, t1 has locked and unlocked m1 (two lines),
\* destroyed it and initialised it again (no line).
C17_Witness ==
  /\ lock_debug = 1
  /\ pc["t1"] = "done"
  /\ call["t1"].op = "janus_mutex_init"
  /\ call["t1"].entry = 1
  /\ call["t1"].prims # <<>>
  /\ lock["m1"] = Fresh
  /\ trace = <<[tag |-> "lock", handle |-> "m1"], [tag |-> "unlock", handle |-> "m1"]>>

(***************************************************************************)
(* C18 (SpecRW).  The claim as made: whenever a thread's                   *)
(* janus_rwlock_writer_unlock reaches the backend, the backend has the     *)
(* lock held in writer mode by that thread; whenever its                   *)
(* janus_rwlock_reader_unlock does, the thread is among the lock's         *)
(* readers.  Callers unlock only in the mode the facade told them they     *)
(* hold.                                                                   *)
(***************************************************************************)
C18_UnlockModePaired ==
  [][\A t \in Threads :
       /\ (DidCall(t) /\ call[t].op = "janus_rwlock_writer_unlock") =>
            lock[call[t].h].owner = t
       /\ (DidCall(t) /\ call[t].op = "janus_rwlock_reader_unlock") =>
            t \in lock[call[t].h].readers]_vars

(***************************************************************************)
(* C19 (SpecRW, the flag toggled between any two steps).  The claim as     *)
(* made: an invocation of a read-write lock, trylock or unlock tests the   *)
(* flag once, prints at most one line, and completes having called its own *)
(* backend primitive exactly once.                                         *)
(***************************************************************************)
C19_OneReadOneCall ==
  \A t \in Threads :
    call[t].op \in RWOps \ {"janus_rwlock_init", "janus_rwlock_destroy"} =>
      /\ call[t].reads = 1
      /\ Len(call[t].lines) <= 1
      /\ Len(call[t].prims) <= 1
      /\ pc[t] = "done" => call[t].prims = <<OwnPrim(backend, call[t].op)>>

====
